---------------------------- MODULE Spec2Model ----------------------------
(***************************************************************************)
(* State-machine model of the FETS HUB catalog (src/App.tsx) and of its    *)
(* create/edit form (src/components/ProjectModal.tsx).                     *)
(*                                                                         *)
(* Text is modelled as a sequence of tokens: " " is a whitespace           *)
(* character, "," the comma, every other token a run of non-blank,         *)
(* non-comma characters.  trim(), split(','), join(', ') work on these     *)
(* sequences as the JavaScript functions work on characters.  A token is   *)
(* cut where a keyword of the tag filter ends ("Node.js" is "Node", ".js"),*)
(* so that includes() on tokens is includes() on characters.               *)
(* An optional object (Project | undefined | null) is <<>> or <<p>>.       *)
(***************************************************************************)
EXTENDS Integers, Sequences, FiniteSets, TLC

VARIABLES
    currentUser,      \* App.tsx:15   the signed-in user
    projects,         \* App.tsx:28   the store, an ordered list of projects
    isModalOpen,      \* App.tsx:30   the create form is open
    editingProject,   \* App.tsx:31   the project the edit form was opened with
    selectedProject,  \* App.tsx:32   the project shown in the detail view
    featuredProject,  \* App.tsx:33   the project shown in the billboard
    forms,            \* ProjectModal.tsx:16-29 formData and dateInput of the two forms
    now,              \* the value Date.now() returns
    inputs,           \* number of form input events so far (bounded by MaxInputs)
    deletes,          \* number of confirmed deletions so far (bounded by MaxDeletes)
    ev,               \* the handler that ran in the last step, and its outcome
    users,            \* App.tsx:17   the user list of the RBAC management
    activeCategory,   \* App.tsx:42   the category of the navigation
    searchQuery,      \* App.tsx:45   the text of the search input
    myList,           \* App.tsx:38   the ids the user put on "My List"
    isGenerating,     \* ProjectModal.tsx:30 the AI busy flag of each of the two forms
    requests,         \* the generateProjectDetails calls in flight, per form
    timers            \* App.tsx:68  the collection each running rotation interval captured

\* the state of the navigation and of the user management
browseVars == <<users, activeCategory, searchQuery, myList>>

vars == <<currentUser, projects, isModalOpen, editingProject, selectedProject,
          featuredProject, forms, now, inputs, deletes, ev, users, activeCategory,
          searchQuery, myList, isGenerating, requests, timers>>

-----------------------------------------------------------------------------
(* Bounds of the model *)

\* form input events (typing, toggling) in one run
MaxInputs == 2
\* confirmed deletions in one run
MaxDeletes == 2
\* clock ticks in one run
MaxTicks == 1
\* clock units per calendar day (resolution of the modelled clock)
DayLen == 2
\* the calendar day on which the session starts
StartDay == 3

StartTime == StartDay * DayLen + 1

-----------------------------------------------------------------------------
(* Text helpers *)

None == <<>>
Some(x) == <<x>>

\* a property that is undefined on the object (optional field left out)
Undefined == <<"undefined">>

\* x || ''
OrEmpty(x) == IF x = Undefined THEN <<>> ELSE x

RECURSIVE TrimStart(_)
TrimStart(s) ==
    IF s # <<>> /\ Head(s) = " " THEN TrimStart(Tail(s)) ELSE s

RECURSIVE TrimEnd(_)
TrimEnd(s) ==
    IF s # <<>> /\ s[Len(s)] = " " THEN TrimEnd(SubSeq(s, 1, Len(s) - 1)) ELSE s

\* String.prototype.trim
Trim(s) == TrimEnd(TrimStart(s))

\* String.prototype.split(','): the segments between commas; '' gives ['']
RECURSIVE Split(_)
Split(s) ==
    IF s = <<>> THEN << <<>> >>
    ELSE LET rest == Split(Tail(s))
         IN  IF Head(s) = ","
             THEN << <<>> >> \o rest
             ELSE << <<Head(s)>> \o Head(rest) >> \o Tail(rest)

\* Array.prototype.join(', ')
RECURSIVE Join(_)
Join(tags) ==
    IF tags = <<>> THEN <<>>
    ELSE IF Len(tags) = 1 THEN Head(tags)
    ELSE Head(tags) \o <<",", " ">> \o Join(Tail(tags))

MapTrim(segs) == [i \in 1..Len(segs) |-> Trim(segs[i])]

Truthy(s) == s # <<>>

\* mutant: the filter(Boolean) step left out
ParseTechStack_NoFilter(s) == MapTrim(Split(s))

\* data.techStack.split(',').map(s => s.trim()).filter(Boolean)
ParseTechStack(s) == SelectSeq(MapTrim(Split(s)), Truthy)

\* the lower-case form of each token that holds an upper-case letter
LowerTable ==
    "FETS" :> "fets" @@ "HUB" :> "hub" @@ "Prometric" :> "prometric" @@
    "Portal" :> "portal" @@ "Pearson" :> "pearson" @@ "VUE" :> "vue" @@
    "Vue" :> "vue" @@ "Navigator" :> "navigator" @@ "PSI" :> "psi" @@
    "Atlas" :> "atlas" @@ "CMA" :> "cma" @@ "USA" :> "usa" @@
    "Handbook" :> "handbook" @@ "Microsoft" :> "microsoft" @@ "Cert" :> "cert" @@
    "Guidelines" :> "guidelines" @@ "RCS" :> "rcs" @@ "England" :> "england" @@
    "Protocols" :> "protocols" @@ "AWS" :> "aws" @@ "Security" :> "security" @@
    "Standards" :> "standards" @@ "React" :> "react" @@ "REACT" :> "react" @@
    "Vite" :> "vite" @@ "Tailwind" :> "tailwind" @@ "CSS" :> "css" @@
    "WebRTC" :> "webrtc" @@ "Node" :> "node" @@ "NODE" :> "node" @@ ".JS" :> ".js" @@
    "Socket.io" :> "socket.io" @@ "Next" :> "next" @@ "PostgreSQL" :> "postgresql" @@
    "Prisma" :> "prisma" @@ "Docker" :> "docker" @@ "Kubernetes" :> "kubernetes" @@
    "Stripe" :> "stripe" @@ "API" :> "api" @@ "Express" :> "express" @@
    "External" :> "external" @@ "PDF" :> "pdf" @@ "Finance" :> "finance" @@
    "IT" :> "it" @@ "Medical" :> "medical" @@ "Compliance" :> "compliance" @@
    "Angular" :> "angular" @@ "Svelte" :> "svelte" @@ "HTML" :> "html" @@
    "General" :> "general" @@ "X" :> "x" @@ "A" :> "a" @@ "B" :> "b"

LowerToken(tok) == IF tok \in DOMAIN LowerTable THEN LowerTable[tok] ELSE tok

\* String.prototype.toLowerCase
ToLowerCase(s) == [i \in 1..Len(s) |-> LowerToken(s[i])]

\* String.prototype.includes: k occurs in s as a run of consecutive characters
Includes(s, k) ==
    \E i \in 1..(Len(s) - Len(k) + 1) : SubSeq(s, i, i + Len(k) - 1) = k

-----------------------------------------------------------------------------
(* Enumerations and seed data *)

Roles == {"ADMIN", "DEVELOPER", "EDITOR", "VIEWER"}

Statuses == {"IDEA", "IN_PROGRESS", "COMPLETED", "ARCHIVED"}

ItemTypes == {"app", "file"}

SeedApp(id, name, status, web, repo, tech) ==
    [id |-> id, name |-> name, description |-> <<"description">>, status |-> status,
     websiteUrl |-> web, repoUrl |-> repo, imageUrl |-> <<"https://images.unsplash.com">>,
     techStack |-> tech, files |-> <<"files">>, createdAt |-> StartTime,
     itemType |-> "app", changeHistory |-> <<>>]

SeedFile(id, name, tech) ==
    [id |-> id, name |-> name, description |-> <<"description">>, status |-> "COMPLETED",
     websiteUrl |-> Undefined, repoUrl |-> Undefined,
     imageUrl |-> <<"https://images.unsplash.com">>,
     techStack |-> tech, files |-> <<"files">>, createdAt |-> StartTime,
     itemType |-> "file", changeHistory |-> <<>>]

\* The twelve seed entries.  File trees and image URLs are one token each, and so is
\* each description that holds no word the search is asked for; the createdAt
\* offsets (at most two hours) are below the clock's resolution.
INITIAL_PROJECTS == <<
    SeedApp("fets-hub", <<"FETS", " ", "HUB">>, "COMPLETED", <<"https://fets.hub">>, <<>>,
            << <<"React">>, <<"Vite">>, <<"Tailwind", " ", "CSS">> >>),
    SeedApp("fets-live", <<"fets.live">>, "IN_PROGRESS", <<"https://fets.live">>, <<>>,
            << <<"WebRTC">>, <<"Node", ".js">>, <<"Socket.io">> >>),
    SeedApp("fets-team", <<"fets.team">>, "COMPLETED", <<"https://fets.team">>, <<>>,
            << <<"Next", ".js">>, <<"PostgreSQL">>, <<"Prisma">> >>),
    SeedApp("fets-cloud", <<"fets.cloud">>, "COMPLETED", <<"https://fets.cloud">>, <<>>,
            << <<"AWS">>, <<"Docker">>, <<"Kubernetes">> >>),
    SeedApp("fets-cash", <<"fets.cash">>, "IN_PROGRESS", <<"https://fets.cash">>, <<>>,
            << <<"Stripe", " ", "API">>, <<"Express">>, <<"React">> >>),
    SeedApp("prometric-portal", <<"Prometric", " ", "Portal">>, "COMPLETED",
            <<"https://www.prometric.com">>, Undefined, << <<"External">>, <<"Portal">> >>),
    SeedApp("pearson-portal", <<"Pearson", " ", "VUE", " ", "Navigator">>, "COMPLETED",
            <<"https://home.pearsonvue.com">>, Undefined, << <<"External">>, <<"Portal">> >>),
    SeedApp("psi-portal", <<"PSI", " ", "Atlas">>, "COMPLETED",
            <<"https://www.psiexams.com">>, Undefined, << <<"External">>, <<"Portal">> >>),
    SeedFile("cert-cma", <<"CMA", " ", "USA", " ", "Handbook">>,
             << <<"PDF">>, <<"Prometric">>, <<"Finance">> >>),
    SeedFile("cert-ms", <<"Microsoft", " ", "Cert", " ", "Guidelines">>,
             << <<"PDF">>, <<"Pearson", " ", "VUE">>, <<"IT">> >>),
    SeedFile("cert-rcs", <<"RCS", " ", "England", " ", "Protocols">>,
             << <<"PDF">>, <<"Pearson", " ", "VUE">>, <<"Medical">> >>),
    [SeedFile("cert-aws", <<"AWS", " ", "Security", " ", "Standards">>,
              << <<"PDF">>, <<"AWS">>, <<"Security">> >>)
        EXCEPT !.description =
            <<"Compliance", " ", "requirements", " ", "for", " ", "hosting", " ", "AWS",
              " ", "certification", " ", "exams", " ", "via", " ", "fets.cloud.">>]
>>

MOCK_USERS == <<
    [id |-> "1", name |-> "System Administrator", role |-> "ADMIN"],
    [id |-> "2", name |-> "Lead Proctor", role |-> "DEVELOPER"],
    [id |-> "3", name |-> "Center Manager", role |-> "EDITOR"]
>>

\* The users a session can run as: the mock users, and the third one after its
\* role was set to VIEWER (the one role of the enumeration no mock user has).
SessionUsers ==
    {MOCK_USERS[i] : i \in 1..Len(MOCK_USERS)} \cup {[MOCK_USERS[3] EXCEPT !.role = "VIEWER"]}


-----------------------------------------------------------------------------
(* RBAC flags derived from the role *)

isEditor(u) == u.role = "EDITOR"

isAdmin(u) == u.role = "ADMIN"

isDev(u) == u.role = "DEVELOPER"

canEditTechnical(u) == ~isEditor(u)

canEditMetadata(u) == u.role # "VIEWER"

canCreate(u) == u.role = "ADMIN" \/ u.role = "DEVELOPER"

-----------------------------------------------------------------------------
(* The form: formData and dateInput of one ProjectModal instance *)

Modals == {"create", "edit"}

\* new Date('YYYY-MM-DD'): a date input holds '' (<<>>) or one calendar day (<<d>>)
\* new Date(createdAt).toISOString().split('T')[0]
ToISODate(t) == <<t \div DayLen>>

BlankForm(t) ==
    [name |-> <<>>, description |-> <<>>, status |-> "IDEA", websiteUrl |-> <<>>,
     repoUrl |-> <<>>, imageUrl |-> <<>>, techStack |-> <<>>, files |-> <<>>,
     itemType |-> "app", changeReason |-> <<>>, dateInput |-> ToISODate(t)]

FormOf(p) ==
    [name |-> p.name, description |-> p.description, status |-> p.status,
     websiteUrl |-> OrEmpty(p.websiteUrl), repoUrl |-> OrEmpty(p.repoUrl),
     imageUrl |-> OrEmpty(p.imageUrl), techStack |-> Join(p.techStack),
     files |-> p.files, itemType |-> p.itemType, changeReason |-> <<>>,
     dateInput |-> ToISODate(p.createdAt)]

\* the body of the form's effect: fill from initialData, or reset for a new item
ResetForm(initialData, t) ==
    IF initialData # None THEN FormOf(initialData[1]) ELSE BlankForm(t)

\* the isOpen and initialData props App passes to each of the two forms
IsOpen(m, open, ep) == IF m = "create" THEN open ELSE ep # None

InitialData(m, ep) == IF m = "create" THEN None ELSE ep

\* The effect with dependencies [isOpen, initialData, currentUser]: after a render
\* in which one of them changed, an open form is filled again.
Refilled(m, cu2, open2, ep2) ==
    /\ IsOpen(m, open2, ep2)
    /\ \/ IsOpen(m, open2, ep2) # IsOpen(m, isModalOpen, editingProject)
       \/ InitialData(m, ep2) # InitialData(m, editingProject)
       \/ cu2 # currentUser

FormEffect(f, cu2, open2, ep2, t) ==
    [m \in Modals |->
        IF Refilled(m, cu2, open2, ep2) THEN ResetForm(InitialData(m, ep2), t) ELSE f[m]]

\* A call in flight remembers the arguments it was made with.  Its stale flag is
\* history: it is set once the form the call was made from is closed or filled again.
RequestsAfter(rq, cu2, open2, ep2) ==
    [m \in Modals |->
        IF ~IsOpen(m, open2, ep2) \/ Refilled(m, cu2, open2, ep2)
        THEN [i \in DOMAIN rq[m] |-> [rq[m][i] EXCEPT !.stale = TRUE]]
        ELSE rq[m]]

\* mutant: the item-type selector is rendered for every role
Rendered_SelectorForAll(f, fd, initialData, u) ==
    CASE f = "changeReason" -> initialData # None
      [] f = "itemType" -> TRUE
      [] f \in {"status", "websiteUrl", "repoUrl", "files"} -> fd.itemType = "app"
      [] f = "dateInput" -> fd.itemType = "file"
      [] OTHER -> TRUE

\* which controls the form renders
Rendered(f, fd, initialData, u) ==
    CASE f = "changeReason" -> initialData # None
      [] f = "itemType" -> initialData = None \/ isAdmin(u)
      [] f \in {"status", "websiteUrl", "repoUrl", "files"} -> fd.itemType = "app"
      [] f = "dateInput" -> fd.itemType = "file"
      [] OTHER -> TRUE

\* the disabled attribute of each control
Enabled(f, u) ==
    CASE f \in {"name", "description", "status", "websiteUrl", "dateInput"} -> canEditMetadata(u)
      [] f \in {"techStack", "repoUrl", "files"} -> canEditTechnical(u)
      [] OTHER -> TRUE

\* the values the user types or selects
FieldValues(f) ==
    CASE f = "name" -> {<<>>, <<" ">>, <<"X">>}
      [] f = "description" -> {<<"new", " ", "description">>}
      [] f = "status" -> Statuses
      [] f = "websiteUrl" -> {<<"https://new.site">>}
      [] f = "repoUrl" -> {<<"https://github.com/new">>}
      [] f = "techStack" -> {<<>>, <<"A", ",", " ", "B", ",", " ", "B">>,
                             <<" ", ",", "A", " ", "B", ",", ",", " ">>}
      [] f = "files" -> {<<"new", " ", "files">>}
      [] f = "changeReason" -> {<<" ">>, <<"fix">>}
      [] f = "itemType" -> ItemTypes
      [] f = "dateInput" -> {<<>>, <<0>>, <<StartDay - 1>>}

Fields ==
    {"name", "description", "status", "websiteUrl", "repoUrl", "techStack", "files",
     "changeReason", "itemType", "dateInput"}

-----------------------------------------------------------------------------
(* The featured project *)

Apps(ps) == SelectSeq(ps, LAMBDA p : p.itemType = "app")

Files(ps) == SelectSeq(ps, LAMBDA p : p.itemType = "file")

\* apps[Math.floor(Math.random() * apps.length)]: of the indices 0 .. length - 1
\* the model draws the two extremes, the first entry and the last
RandomOf(apps) == {apps[i] : i \in {1, Len(apps)} \cap DOMAIN apps}

\* The effect with dependency [projects]: it picks a featured project when there
\* is none and the store holds an app.
FeaturedEffect(fp, ps) ==
    IF Apps(ps) # <<>> /\ fp = None THEN {Some(p) : p \in RandomOf(Apps(ps))} ELSE {fp}

\* mutant: the effect has no cleanup, the interval of the last run keeps running
TimersAfter_NoCleanup(tm, ps2, stored) == IF stored THEN Append(tm, ps2) ELSE tm

\* The rotation intervals after a render.  The effect runs again when the projects
\* reference changed (stored): its cleanup clears the interval of the last run, its
\* body starts one whose callback reads the projects of this render.
TimersAfter(tm, ps2, stored) == IF stored THEN <<ps2>> ELSE tm

\* the projects of the rows the user clicks on: the first app and the first file
Clickable(ps) ==
    {Apps(ps)[i] : i \in {1} \cap DOMAIN Apps(ps)}
        \cup {Files(ps)[i] : i \in {1} \cap DOMAIN Files(ps)}

-----------------------------------------------------------------------------
(* The handlers of App *)

Idle == [op |-> "idle", modal |-> "", id |-> "", ok |-> FALSE]

\* One render after a handler: the new state, then the effects that follow it.
Render(cu2, ps2, open2, ep2, sel2, fp2, f2, stored) ==
    /\ currentUser' = cu2
    /\ projects' = ps2
    /\ isModalOpen' = open2
    /\ editingProject' = ep2
    /\ selectedProject' = sel2
    /\ featuredProject' \in (IF stored THEN FeaturedEffect(fp2, ps2) ELSE {fp2})
    /\ forms' = FormEffect(f2, cu2, open2, ep2, now)
    /\ requests' = RequestsAfter(requests, cu2, open2, ep2)
    /\ timers' = TimersAfter(timers, ps2, stored)

Init ==
    /\ currentUser = MOCK_USERS[1]
    /\ projects = INITIAL_PROJECTS
    /\ isModalOpen = FALSE
    /\ editingProject = None
    /\ selectedProject = None
    /\ featuredProject \in FeaturedEffect(None, INITIAL_PROJECTS)
    /\ forms = [m \in Modals |-> BlankForm(StartTime)]
    /\ now = StartTime
    /\ inputs = 0
    /\ deletes = 0
    /\ ev = Idle
    /\ users = MOCK_USERS
    /\ activeCategory = "Home"
    /\ searchQuery = <<>>
    /\ myList = <<>>
    /\ isGenerating = [m \in Modals |-> FALSE]
    /\ requests = [m \in Modals |-> <<>>]
    /\ timers = <<INITIAL_PROJECTS>>

\* Date.now() advances
Tick ==
    /\ now < StartTime + MaxTicks
    /\ now' = now + 1
    /\ ev' = Idle
    /\ UNCHANGED <<currentUser, projects, isModalOpen, editingProject, selectedProject,
                   featuredProject, forms, inputs, deletes, browseVars, isGenerating,
                   requests, timers>>

\* setCurrentUser: another user signs in
SetCurrentUser(u) ==
    /\ u # currentUser
    /\ Render(u, projects, isModalOpen, editingProject, selectedProject,
              featuredProject, forms, FALSE)
    /\ ev' = Idle
    /\ UNCHANGED <<now, inputs, deletes, browseVars, isGenerating>>

\* the New Build button, rendered when canCreate
openCreateModal ==
    /\ canCreate(currentUser)
    /\ Render(currentUser, projects, TRUE, None, selectedProject, featuredProject,
              forms, FALSE)
    /\ ev' = Idle
    /\ UNCHANGED <<now, inputs, deletes, browseVars, isGenerating>>

openEditModal(p) ==
    /\ Render(currentUser, projects, isModalOpen, Some(p), None, featuredProject,
              forms, FALSE)
    /\ ev' = Idle
    /\ UNCHANGED <<now, inputs, deletes, browseVars, isGenerating>>

\* onView of a row
ViewProject(p) ==
    /\ selectedProject # Some(p)
    /\ Render(currentUser, projects, isModalOpen, editingProject, Some(p),
              featuredProject, forms, FALSE)
    /\ ev' = Idle
    /\ UNCHANGED <<now, inputs, deletes, browseVars, isGenerating>>

\* mutant: the rotation also opens the detail view of the project it picks
RotateFeatured_Selects ==
    /\ \E k \in DOMAIN timers : \E p \in RandomOf(Apps(timers[k])) :
          /\ featuredProject # Some(p)
          /\ Render(currentUser, projects, isModalOpen, editingProject, Some(p),
                    Some(p), forms, FALSE)
    /\ ev' = Idle
    /\ UNCHANGED <<now, inputs, deletes, browseVars, isGenerating>>

\* the setInterval callback of the rotation: it fires in an interval that is
\* running and picks among the apps of the collection that interval captured
RotateFeatured ==
    /\ \E k \in DOMAIN timers : \E p \in RandomOf(Apps(timers[k])) :
          /\ featuredProject # Some(p)
          /\ Render(currentUser, projects, isModalOpen, editingProject, selectedProject,
                    Some(p), forms, FALSE)
    /\ ev' = Idle
    /\ UNCHANGED <<now, inputs, deletes, browseVars, isGenerating>>

-----------------------------------------------------------------------------
(* Saving *)

\* new Date(dateInput).getTime() || Date.now(): NaN and 0 are both falsy
CreatedAtOf(dateInput, t) ==
    IF dateInput = <<>> \/ dateInput[1] * DayLen = 0 THEN t ELSE dateInput[1] * DayLen

\* mutant: the change-reason validation left out
Rejected_NoReasonCheck(fd, initialData) == Trim(fd.name) = <<>>

\* mutant: the name tested without trim()
Rejected_NoTrim(fd, initialData) ==
    \/ fd.name = <<>>
    \/ initialData # None /\ Trim(fd.changeReason) = <<>>

\* the two validations of handleSubmit; TRUE when the submission is rejected
Rejected(fd, initialData) ==
    \/ Trim(fd.name) = <<>>
    \/ initialData # None /\ Trim(fd.changeReason) = <<>>

\* mutant: the status of a file is not forced to COMPLETED
FinalData_KeepStatus(fd, t) ==
    [name |-> fd.name, description |-> fd.description, status |-> fd.status,
     websiteUrl |-> fd.websiteUrl, repoUrl |-> fd.repoUrl, imageUrl |-> fd.imageUrl,
     techStack |-> fd.techStack, files |-> fd.files, itemType |-> fd.itemType,
     changeReason |-> fd.changeReason, createdAt |-> CreatedAtOf(fd.dateInput, t)]

\* finalData of handleSubmit
FinalData(fd, t) ==
    [name |-> fd.name, description |-> fd.description,
     status |-> IF fd.itemType = "file" THEN "COMPLETED" ELSE fd.status,
     websiteUrl |-> fd.websiteUrl, repoUrl |-> fd.repoUrl, imageUrl |-> fd.imageUrl,
     techStack |-> fd.techStack, files |-> fd.files, itemType |-> fd.itemType,
     changeReason |-> fd.changeReason, createdAt |-> CreatedAtOf(fd.dateInput, t)]

\* newProject of handleCreateProject
NewProject(data, t) ==
    [id |-> ToString(t),
     createdAt |-> IF data.createdAt # 0 THEN data.createdAt ELSE t,
     name |-> data.name, description |-> data.description, status |-> data.status,
     websiteUrl |-> data.websiteUrl, repoUrl |-> data.repoUrl, imageUrl |-> data.imageUrl,
     techStack |-> ParseTechStack(data.techStack), files |-> data.files,
     itemType |-> data.itemType, changeHistory |-> <<>>]

\* mutant: the new project is put at the end of the store
handleCreateProject_AtEnd(ps, data, t) == ps \o <<NewProject(data, t)>>

\* setProjects([newProject, ...projects])
handleCreateProject(ps, data, t) == <<NewProject(data, t)>> \o ps

\* mutant: the entry always carries the default reason
NewLog_DefaultReason(data, u, t) ==
    [id |-> ToString(t), date |-> t, author |-> u.name,
     reason |-> <<"General", " ", "update">>]

\* mutant: the entry carries no reason
NewLog_NoReason(data, u, t) ==
    [id |-> ToString(t), date |-> t, author |-> u.name, reason |-> <<>>]

\* newLog of handleUpdateProject
NewLog(data, u, t) ==
    [id |-> ToString(t), date |-> t, author |-> u.name,
     reason |-> IF Truthy(data.changeReason) THEN data.changeReason
                ELSE <<"General", " ", "update">>]

\* mutant: the history is replaced by the new entry
UpdatedProject_NewHistory(p, data, u, t) ==
    [p EXCEPT !.name = data.name, !.description = data.description,
              !.status = data.status, !.websiteUrl = data.websiteUrl,
              !.repoUrl = data.repoUrl, !.imageUrl = data.imageUrl,
              !.techStack = ParseTechStack(data.techStack), !.files = data.files,
              !.itemType = data.itemType,
              !.createdAt = IF data.createdAt # 0 THEN data.createdAt ELSE p.createdAt,
              !.changeHistory = <<NewLog(data, u, t)>>]

\* the object handleUpdateProject puts in place of p
UpdatedProject(p, data, u, t) ==
    [p EXCEPT !.name = data.name, !.description = data.description,
              !.status = data.status, !.websiteUrl = data.websiteUrl,
              !.repoUrl = data.repoUrl, !.imageUrl = data.imageUrl,
              !.techStack = ParseTechStack(data.techStack), !.files = data.files,
              !.itemType = data.itemType,
              !.createdAt = IF data.createdAt # 0 THEN data.createdAt ELSE p.createdAt,
              !.changeHistory = p.changeHistory \o <<NewLog(data, u, t)>>]

\* handleUpdateProject: returns at once when there is no editingProject id
handleUpdateProject(ps, ep, data, u, t) ==
    IF ep = None \/ ep[1].id = "" THEN ps
    ELSE [i \in 1..Len(ps) |->
             IF ps[i].id = ep[1].id THEN UpdatedProject(ps[i], data, u, t) ELSE ps[i]]

\* mutant: the handler behind onSave runs twice
onSave_Twice(m, ps, ep, data, u, t) ==
    IF m = "create" THEN handleCreateProject(handleCreateProject(ps, data, t), data, t)
    ELSE handleUpdateProject(handleUpdateProject(ps, ep, data, u, t), ep, data, u, t)

\* the onSave prop of each form
onSave(m, ps, ep, data, u, t) ==
    IF m = "create" THEN handleCreateProject(ps, data, t)
    ELSE handleUpdateProject(ps, ep, data, u, t)

\* the id of the entity a save of form m writes
SavedId(m, ep, t) == IF m = "create" THEN ToString(t) ELSE ep[1].id

\* handleSubmit of form m: validate; then onSave(finalData) and onClose()
Submit(m) ==
    LET fd == forms[m]
        initialData == InitialData(m, editingProject)
    IN  /\ IsOpen(m, isModalOpen, editingProject)
        /\ IF Rejected(fd, initialData)
           THEN /\ ev' = [op |-> "handleSubmit", modal |-> m, id |-> "", ok |-> FALSE]
                /\ UNCHANGED <<currentUser, projects, isModalOpen, editingProject,
                               selectedProject, featuredProject, forms, requests,
                               timers>>
           ELSE /\ Render(currentUser,
                          onSave(m, projects, editingProject, FinalData(fd, now),
                                 currentUser, now),
                          IF m = "create" THEN FALSE ELSE isModalOpen,
                          IF m = "edit" THEN None ELSE editingProject,
                          selectedProject, featuredProject, forms, TRUE)
                /\ ev' = [op |-> "handleSubmit", modal |-> m,
                          id |-> SavedId(m, editingProject, now), ok |-> TRUE]
        /\ UNCHANGED <<now, inputs, deletes, browseVars, isGenerating>>

\* the Save button, rendered when canEditMetadata
handleSubmit(m) ==
    /\ canEditMetadata(currentUser)
    /\ Submit(m)

\* a submit event dispatched on the form when the Save button is not rendered
ScriptedSubmit(m) ==
    /\ ~canEditMetadata(currentUser)
    /\ Submit(m)

\* onChange of one control: setFormData({...formData, [f]: v}) or setDateInput(v)
Change(m, f, v) ==
    /\ inputs < MaxInputs
    /\ IsOpen(m, isModalOpen, editingProject)
    /\ Rendered(f, forms[m], InitialData(m, editingProject), currentUser)
    /\ forms[m][f] # v
    /\ forms' = [forms EXCEPT ![m][f] = v]
    /\ inputs' = inputs + 1
    /\ ev' = Idle
    /\ UNCHANGED <<currentUser, projects, isModalOpen, editingProject, selectedProject,
                   featuredProject, now, deletes, browseVars, isGenerating, requests,
                   timers>>

\* the user types into, or selects in, a control that is not disabled
ChangeField(m, f, v) ==
    /\ Enabled(f, currentUser)
    /\ Change(m, f, v)

\* a change event dispatched on a control that is rendered disabled
ScriptedChange(m, f, v) ==
    /\ ~Enabled(f, currentUser)
    /\ Change(m, f, v)

\* onClose of form m: Cancel, or the X of the header
closeModal(m) ==
    /\ IsOpen(m, isModalOpen, editingProject)
    /\ Render(currentUser, projects,
              IF m = "create" THEN FALSE ELSE isModalOpen,
              IF m = "edit" THEN None ELSE editingProject,
              selectedProject, featuredProject, forms, FALSE)
    /\ ev' = Idle
    /\ UNCHANGED <<now, inputs, deletes, browseVars, isGenerating>>

-----------------------------------------------------------------------------
(* Deleting *)

\* prev.filter(p => p.id !== id)
DeleteFromStore(ps, id) == SelectSeq(ps, LAMBDA p : p.id # id)

\* mutant: the reference is kept
ClearIfDeleted_Keep(ref, id) == ref

\* if (ref?.id === id) the reference is cleared
ClearIfDeleted(ref, id) == IF ref # None /\ ref[1].id = id THEN None ELSE ref

\* the featured project after a deletion: the first remaining app, or none
FeaturedAfterDelete(fp, ps, id) ==
    IF fp # None /\ fp[1].id = id
    THEN LET remaining == SelectSeq(ps, LAMBDA p : p.id # id /\ p.itemType = "app")
         IN  IF Len(remaining) > 0 THEN Some(remaining[1]) ELSE None
    ELSE fp

\* handleDeleteProject(id); confirmed is the answer to window.confirm
DeleteProject(id, confirmed) ==
    /\ IF confirmed
       THEN /\ Render(currentUser, DeleteFromStore(projects, id), isModalOpen,
                      ClearIfDeleted(editingProject, id),
                      ClearIfDeleted(selectedProject, id),
                      FeaturedAfterDelete(featuredProject, projects, id), forms, TRUE)
            /\ deletes' = deletes + 1
       ELSE UNCHANGED <<currentUser, projects, isModalOpen, editingProject,
                        selectedProject, featuredProject, forms, deletes, requests,
                        timers>>
    /\ ev' = [op |-> "handleDeleteProject", modal |-> "", id |-> id, ok |-> confirmed]
    /\ UNCHANGED <<now, inputs, browseVars, isGenerating>>

\* handleDeleteProject in a run of at most MaxDeletes confirmed deletions
handleDeleteProject(id, confirmed) ==
    /\ confirmed => deletes < MaxDeletes
    /\ DeleteProject(id, confirmed)

\* mutant: the user is removed whatever the answer to the prompt
UsersAfterDelete_NoConfirm(us, userId, confirmed) ==
    SelectSeq(us, LAMBDA u : u.id # userId)

\* users.filter(u => u.id !== userId), inside the if of window.confirm
UsersAfterDelete(us, userId, confirmed) ==
    IF confirmed THEN SelectSeq(us, LAMBDA u : u.id # userId) ELSE us

\* handleDeleteUser(userId); confirmed is the answer to window.confirm
handleDeleteUser(userId, confirmed) ==
    /\ users' = UsersAfterDelete(users, userId, confirmed)
    /\ ev' = [op |-> "handleDeleteUser", modal |-> "", id |-> userId, ok |-> confirmed]
    /\ UNCHANGED <<currentUser, projects, isModalOpen, editingProject, selectedProject,
                   featuredProject, forms, now, inputs, deletes, activeCategory,
                   searchQuery, myList, isGenerating, requests, timers>>

\* handleRemoveImage of form m: the button over the cover preview, rendered in the
\* app form for an administrator when the form holds an image
handleRemoveImage(m, confirmed) ==
    /\ IsOpen(m, isModalOpen, editingProject)
    /\ forms[m].itemType = "app"
    /\ isAdmin(currentUser)
    /\ Truthy(forms[m].imageUrl)
    /\ forms' = IF confirmed THEN [forms EXCEPT ![m].imageUrl = <<>>] ELSE forms
    /\ ev' = [op |-> "handleRemoveImage", modal |-> m, id |-> "", ok |-> confirmed]
    /\ UNCHANGED <<currentUser, projects, isModalOpen, editingProject, selectedProject,
                   featuredProject, now, inputs, deletes, browseVars, isGenerating,
                   requests, timers>>

-----------------------------------------------------------------------------
(* The AI helper *)

\* what generateProjectDetails resolves to: null (no API key, an empty response
\* text, an error caught in the helper) or the parsed response
AiOutcomes ==
    {None,
     Some([description |-> <<"generated", " ", "description">>,
           suggestedFiles |-> <<"generated", " ", "files">>])}

\* mutant: setIsGenerating has no effect
SetGenerating_Never(flags, m, v) == flags

\* setIsGenerating(v) in form m
SetGenerating(flags, m, v) == [flags EXCEPT ![m] = v]

\* mutant: a null result empties the description
ApplyResult_ClearOnNull(fd, result) ==
    IF result # None
    THEN [fd EXCEPT !.description = result[1].description,
                    !.files = IF Truthy(@) THEN @ ELSE result[1].suggestedFiles]
    ELSE [fd EXCEPT !.description = <<>>]

\* mutant: the files are overwritten whatever they hold
ApplyResult_OverwriteFiles(fd, result) ==
    IF result # None
    THEN [fd EXCEPT !.description = result[1].description,
                    !.files = result[1].suggestedFiles]
    ELSE fd

\* if (result) setFormData(prev => ({...prev, description, files: prev.files || ...}))
ApplyResult(fd, result) ==
    IF result # None
    THEN [fd EXCEPT !.description = result[1].description,
                    !.files = IF Truthy(@) THEN @ ELSE result[1].suggestedFiles]
    ELSE fd

\* handleGenerate of form m, up to the await: the AI Auto-Fill button, rendered in
\* the app form when canEditTechnical and disabled while isGenerating
handleGenerate(m) ==
    /\ IsOpen(m, isModalOpen, editingProject)
    /\ forms[m].itemType = "app"
    /\ canEditTechnical(currentUser)
    /\ ~isGenerating[m]
    /\ IF ~Truthy(forms[m].name) \/ ~Truthy(forms[m].techStack)
       THEN /\ ev' = [op |-> "handleGenerate", modal |-> m, id |-> "", ok |-> FALSE]
            /\ UNCHANGED <<isGenerating, requests>>
       ELSE /\ isGenerating' = SetGenerating(isGenerating, m, TRUE)
            /\ requests' =
                  [requests EXCEPT ![m] =
                      Append(@, [name |-> forms[m].name, techStack |-> forms[m].techStack,
                                 target |-> IF InitialData(m, editingProject) = None THEN ""
                                            ELSE editingProject[1].id,
                                 stale |-> FALSE])]
            /\ ev' = [op |-> "handleGenerate", modal |-> m, id |-> "", ok |-> TRUE]
    /\ UNCHANGED <<currentUser, projects, isModalOpen, editingProject, selectedProject,
                   featuredProject, forms, now, inputs, deletes, browseVars, timers>>

\* handleGenerate of form m after the await: the call resolved to result
generateResponse(m, result) ==
    /\ requests[m] # <<>>
    /\ isGenerating' = SetGenerating(isGenerating, m, FALSE)
    /\ forms' = [forms EXCEPT ![m] = ApplyResult(@, result)]
    /\ requests' = [requests EXCEPT ![m] = Tail(@)]
    /\ ev' = [op |-> "generateResponse", modal |-> m, id |-> "", ok |-> result # None]
    /\ UNCHANGED <<currentUser, projects, isModalOpen, editingProject, selectedProject,
                   featuredProject, now, inputs, deletes, browseVars, timers>>

\* the controls typed into around the AI helper
AiFields == {"name", "techStack", "description", "files"}

-----------------------------------------------------------------------------
(* Navigation, search and the rows of the catalog *)

\* the categories the navigation sets
NavCategories == {"Home", "Resources", "FETS Apps", "SOP"}

\* the categories the code names: those, and the one the filter tests for
Categories == NavCategories \cup {"My List"}

\* the keywords of the tag-based category
Keywords ==
    {<<"React">>, <<"Vue">>, <<"Angular">>, <<"Svelte">>, <<"Next", ".js">>, <<"HTML">>,
     <<"Node">>}

\* p.techStack.some(t => [...].some(k => t.includes(k)))
HasKeyword(p) ==
    \E i \in 1..Len(p.techStack) : \E k \in Keywords : Includes(p.techStack[i], k)

\* myList.includes(id)
InList(ml, id) == \E i \in 1..Len(ml) : ml[i] = id

\* mutant: a category the filter does not name shows nothing
FilterByCategory_Strict(ps, c, ml) ==
    CASE c = "Home" -> SelectSeq(ps, LAMBDA p : p.itemType = "app")
      [] c = "Resources" -> SelectSeq(ps, LAMBDA p : p.itemType = "file")
      [] c = "My List" -> SelectSeq(ps, LAMBDA p : InList(ml, p.id))
      [] c = "FETS Apps" -> SelectSeq(ps, LAMBDA p : p.itemType = "app" /\ HasKeyword(p))
      [] OTHER -> <<>>

\* 1. Filter by Category
FilterByCategory(ps, c, ml) ==
    CASE c = "Home" -> SelectSeq(ps, LAMBDA p : p.itemType = "app")
      [] c = "Resources" -> SelectSeq(ps, LAMBDA p : p.itemType = "file")
      [] c = "My List" -> SelectSeq(ps, LAMBDA p : InList(ml, p.id))
      [] c = "FETS Apps" -> SelectSeq(ps, LAMBDA p : p.itemType = "app" /\ HasKeyword(p))
      [] OTHER -> ps

\* the predicate of the search filter, lowerQuery being searchQuery.toLowerCase()
Matches(p, lowerQuery) ==
    \/ Includes(ToLowerCase(p.name), lowerQuery)
    \/ Includes(ToLowerCase(p.description), lowerQuery)
    \/ \E i \in 1..Len(p.techStack) : Includes(ToLowerCase(p.techStack[i]), lowerQuery)

\* mutant: the search narrows the category's result
filteredProjects_Narrowed(ps, q, c, ml) ==
    LET filtered == FilterByCategory(ps, c, ml)
    IN  IF Truthy(q)
        THEN SelectSeq(filtered, LAMBDA p : Matches(p, ToLowerCase(q)))
        ELSE filtered

\* filteredProjects: the category filter, replaced by the search over the whole
\* store when there is a query
filteredProjects(ps, q, c, ml) ==
    LET filtered == FilterByCategory(ps, c, ml)
    IN  IF Truthy(q)
        THEN SelectSeq(ps, LAMBDA p : Matches(p, ToLowerCase(q)))
        ELSE filtered

\* grouped before the loop
EmptyGroups == [k \in Statuses |-> <<>>]

\* mutant: a status the object has no key for is dropped
GroupStep_Drop(grouped, p) ==
    IF p.status \in DOMAIN grouped
    THEN [grouped EXCEPT ![p.status] = Append(@, p)]
    ELSE grouped

\* the body of the forEach: push to grouped[p.status] when the object has that key,
\* else to grouped['Other'], created when it is missing
GroupStep(grouped, p) ==
    IF p.status \in DOMAIN grouped
    THEN [grouped EXCEPT ![p.status] = Append(@, p)]
    ELSE LET g == IF "Other" \in DOMAIN grouped THEN grouped
                  ELSE grouped @@ ("Other" :> <<>>)
         IN  [g EXCEPT !["Other"] = Append(@, p)]

RECURSIVE GroupAll(_, _)
GroupAll(grouped, fs) ==
    IF fs = <<>> THEN grouped ELSE GroupAll(GroupStep(grouped, Head(fs)), Tail(fs))

\* projectsByStatus
projectsByStatus(fs) == GroupAll(EmptyGroups, fs)

\* setActiveCategory(c): a link of the navigation
setActiveCategory(c) ==
    /\ c # activeCategory
    /\ activeCategory' = c
    /\ ev' = Idle
    /\ UNCHANGED <<currentUser, projects, isModalOpen, editingProject, selectedProject,
                   featuredProject, forms, now, inputs, deletes, users, searchQuery,
                   myList, isGenerating, requests, timers>>

\* the click on the application's name: the search is cleared, Home is shown
goHome ==
    /\ searchQuery # <<>> \/ activeCategory # "Home"
    /\ searchQuery' = <<>>
    /\ activeCategory' = "Home"
    /\ ev' = Idle
    /\ UNCHANGED <<currentUser, projects, isModalOpen, editingProject, selectedProject,
                   featuredProject, forms, now, inputs, deletes, users, myList,
                   isGenerating, requests, timers>>

\* onChange of the search input
setSearchQuery(q) ==
    /\ q # searchQuery
    /\ searchQuery' = q
    /\ ev' = Idle
    /\ UNCHANGED <<currentUser, projects, isModalOpen, editingProject, selectedProject,
                   featuredProject, forms, now, inputs, deletes, users, activeCategory,
                   myList, isGenerating, requests, timers>>

\* toggleMyList(id)
toggleMyList(id) ==
    /\ myList' = IF InList(myList, id) THEN SelectSeq(myList, LAMBDA i : i # id)
                 ELSE Append(myList, id)
    /\ ev' = Idle
    /\ UNCHANGED <<currentUser, projects, isModalOpen, editingProject, selectedProject,
                   featuredProject, forms, now, inputs, deletes, users, activeCategory,
                   searchQuery, isGenerating, requests, timers>>

\* the queries typed into the search input
Queries == {<<>>, <<"aws">>, <<"React">>}

\* the tag lists typed into the tech stack control while browsing
BrowseTags == {<<"react", ",", " ", "NODE", ".JS">>, <<"Vite">>}

\* the other controls used while browsing
BrowseFields == {"changeReason", "status"}

-----------------------------------------------------------------------------
(* Specifications *)

\* setSelectedProject(null): onClose of the detail view
closeDetail ==
    /\ selectedProject # None
    /\ Render(currentUser, projects, isModalOpen, editingProject, None,
              featuredProject, forms, FALSE)
    /\ ev' = Idle
    /\ UNCHANGED <<now, inputs, deletes, browseVars, isGenerating>>

\* the controls typed into in the specification with the clock
ClockFields == {"name", "changeReason", "itemType", "dateInput"}

\* the controls typed into in the catalog specification
CatalogFields == {"changeReason", "itemType"}

\* The editing workflow of the session the program starts, in which no call of
\* setCurrentUser exists and the user stays MOCK_USERS[0], the administrator: the
\* two forms, every control of them, save and cancel, at one reading of the clock.
Next ==
    \/ openCreateModal
    \/ \E p \in Clickable(projects) : openEditModal(p)
    \/ \E m \in Modals, f \in Fields : \E v \in FieldValues(f) : ChangeField(m, f, v)
    \/ \E m \in Modals : handleSubmit(m)
    \/ \E m \in Modals : closeModal(m)

Spec == Init /\ [][Next]_vars

\* The same workflow with Date.now() advancing between the events.
NextClock ==
    \/ Tick
    \/ openCreateModal
    \/ \E p \in Clickable(projects) : openEditModal(p)
    \/ \E m \in Modals, f \in ClockFields : \E v \in FieldValues(f) : ChangeField(m, f, v)
    \/ \E m \in Modals : handleSubmit(m)
    \/ \E m \in Modals : closeModal(m)

SpecClock == Init /\ [][NextClock]_vars

\* The workflow of every role, another user signing in through setCurrentUser, with
\* events dispatched on disabled controls and on a form whose Save button is not
\* rendered.
NextScripted ==
    \/ \E u \in SessionUsers : SetCurrentUser(u)
    \/ openCreateModal
    \/ \E p \in Clickable(projects) : openEditModal(p)
    \/ \E m \in Modals, f \in Fields : \E v \in FieldValues(f) : ChangeField(m, f, v)
    \/ \E m \in Modals, f \in Fields : \E v \in FieldValues(f) : ScriptedChange(m, f, v)
    \/ \E m \in Modals : handleSubmit(m)
    \/ \E m \in Modals : ScriptedSubmit(m)
    \/ \E m \in Modals : closeModal(m)

SpecScripted == Init /\ [][NextScripted]_vars

\* The catalog: rows viewed, edited and deleted, the featured project rotating,
\* by the administrator the session starts with.
NextCatalog ==
    \/ \E p \in Clickable(projects) : ViewProject(p)
    \/ closeDetail
    \/ RotateFeatured
    \/ \E p \in Clickable(projects), c \in BOOLEAN : handleDeleteProject(p.id, c)
    \/ \E p \in Clickable(projects) : openEditModal(p)
    \/ \E f \in CatalogFields : \E v \in FieldValues(f) : ChangeField("edit", f, v)
    \/ handleSubmit("edit")
    \/ closeModal("edit")

SpecCatalog == Init /\ [][NextCatalog]_vars

\* The destructive actions, each behind its window.confirm prompt, answered either
\* way: a project deleted, a user removed, the cover image of a form removed.
NextConfirm ==
    \/ \E p \in Clickable(projects) : ViewProject(p)
    \/ closeDetail
    \/ \E p \in Clickable(projects) : openEditModal(p)
    \/ closeModal("edit")
    \/ \E p \in Clickable(projects), c \in BOOLEAN : handleDeleteProject(p.id, c)
    \/ \E i \in DOMAIN users, c \in BOOLEAN : handleDeleteUser(users[i].id, c)
    \/ \E m \in Modals, c \in BOOLEAN : handleRemoveImage(m, c)

SpecConfirm == Init /\ [][NextConfirm]_vars

\* The apps leaving the store: the first app deleted, again and again, or saved as
\* a file by the administrator, while the featured project rotates.
NextLastApp ==
    \/ \E p \in Clickable(projects) : p.itemType = "app" /\ DeleteProject(p.id, TRUE)
    \/ RotateFeatured
    \/ \E p \in Clickable(projects) : p.itemType = "app" /\ openEditModal(p)
    \/ \E f \in CatalogFields : \E v \in FieldValues(f) : ChangeField("edit", f, v)
    \/ handleSubmit("edit")
    \/ closeModal("edit")

SpecLastApp == Init /\ [][NextLastApp]_vars

\* Browsing: the navigation, the search input and "My List" (the first file put on
\* it and taken off), while the administrator edits the status and the tags of the
\* first app.
NextBrowse ==
    \/ \E c \in NavCategories : setActiveCategory(c)
    \/ goHome
    \/ \E q \in Queries : setSearchQuery(q)
    \/ \E p \in Clickable(projects) : p.itemType = "file" /\ toggleMyList(p.id)
    \/ \E p \in Clickable(projects) : p.itemType = "app" /\ openEditModal(p)
    \/ \E f \in BrowseFields : \E v \in FieldValues(f) : ChangeField("edit", f, v)
    \/ \E v \in BrowseTags : ChangeField("edit", "techStack", v)
    \/ handleSubmit("edit")
    \/ closeModal("edit")

SpecBrowse == Init /\ [][NextBrowse]_vars

\* The forms with the AI helper: a call started from a form, the form typed into,
\* closed and opened again while the call is in flight, the call resolving.  The
\* rows are clicked while no form covers them.
NextAI ==
    \/ openCreateModal
    \/ \E p \in Clickable(projects) :
          ~isModalOpen /\ editingProject = None /\ openEditModal(p)
    \/ \E m \in Modals, f \in AiFields : \E v \in FieldValues(f) : ChangeField(m, f, v)
    \/ \E m \in Modals : handleGenerate(m)
    \/ \E m \in Modals, result \in AiOutcomes : generateResponse(m, result)
    \/ \E m \in Modals : closeModal(m)

SpecAI == Init /\ [][NextAI]_vars

\* Every call of generateProjectDetails settles: the promise of each form resolves.
SpecAILive ==
    SpecAI /\ \A m \in Modals : WF_vars(\E result \in AiOutcomes : generateResponse(m, result))

\* A form is an overlay over the whole window (fixed inset-0, above the navigation
\* and the rows): while one is open, the controls under it receive no click.
Covered == isModalOpen \/ editingProject # None

\* the controls typed into in the workflow specification
WorkflowFields == {"name", "changeReason"}

\* The form workflow as the window offers it: New Build, Edit and Delete of a row
\* are clicked while no form covers them; an open form is typed into, submitted,
\* cancelled.
NextWorkflow ==
    \/ ~Covered /\ openCreateModal
    \/ \E p \in Clickable(projects) : ~Covered /\ openEditModal(p)
    \/ \E p \in Clickable(projects) : ~Covered /\ handleDeleteProject(p.id, TRUE)
    \/ \E m \in Modals, f \in WorkflowFields : \E v \in FieldValues(f) : ChangeField(m, f, v)
    \/ \E m \in Modals : handleSubmit(m)
    \/ \E m \in Modals : closeModal(m)

SpecWorkflow == Init /\ [][NextWorkflow]_vars

\* The form workflow while the rotation timer fires.
NextTimer ==
    \/ NextWorkflow
    \/ RotateFeatured

SpecTimer == Init /\ [][NextTimer]_vars

\* the controls used in the specification of the roles
RoleFields == {"changeReason", "itemType", "repoUrl"}

\* The edit form under every role: another user signing in, the form typed into
\* (also through events dispatched on a disabled control), saved (also through a
\* submit event when the Save button is not rendered), cancelled.
NextRoles ==
    \/ \E u \in SessionUsers : SetCurrentUser(u)
    \/ \E p \in Clickable(projects) : openEditModal(p)
    \/ \E f \in RoleFields : \E v \in FieldValues(f) : ChangeField("edit", f, v)
    \/ \E f \in RoleFields : \E v \in FieldValues(f) : ScriptedChange("edit", f, v)
    \/ handleSubmit("edit")
    \/ ScriptedSubmit("edit")
    \/ closeModal("edit")

SpecRoles == Init /\ [][NextRoles]_vars

-----------------------------------------------------------------------------
(* Claims *)

C1_Table(role) ==
    CASE role = "ADMIN" ->
            [metadata |-> TRUE, technical |-> TRUE, deleteCover |-> TRUE, create |-> TRUE]
      [] role = "DEVELOPER" ->
            [metadata |-> TRUE, technical |-> TRUE, deleteCover |-> FALSE, create |-> TRUE]
      [] role = "EDITOR" ->
            [metadata |-> TRUE, technical |-> FALSE, deleteCover |-> FALSE, create |-> FALSE]
      [] role = "VIEWER" ->
            [metadata |-> FALSE, technical |-> FALSE, deleteCover |-> FALSE, create |-> FALSE]

C1_Flags(u) ==
    [metadata |-> canEditMetadata(u), technical |-> canEditTechnical(u),
     deleteCover |-> isAdmin(u), create |-> canCreate(u)]

\* C1: the capability flags derived from the current user's role (canEditMetadata,
\* canEditTechnical, admin-only cover removal, canCreate) equal the row of the RBAC
\* table for that role.
C1_RbacTable == C1_Flags(currentUser) = C1_Table(currentUser.role)

\* C2: when the current user is an EDITOR, an edit submission leaves the repoUrl of
\* every stored entity as it was, also when the submitted repoUrl differs.
C2_EditorRepoUrlKept ==
    [][(ev'.op = "handleSubmit" /\ ev'.modal = "edit" /\ currentUser.role = "EDITOR")
        => /\ Len(projects') = Len(projects)
           /\ \A i \in 1..Len(projects) :
                 OrEmpty(projects'[i].repoUrl) = OrEmpty(projects[i].repoUrl)]_vars

\* C3: a submission changes the store only if the role has the capability: ADMIN or
\* DEVELOPER for a create, any role but VIEWER for an edit.
C3_SaveNeedsCapability ==
    [][(ev'.op = "handleSubmit" /\ projects' # projects)
        => /\ ev'.modal = "create" => currentUser.role \in {"ADMIN", "DEVELOPER"}
           /\ ev'.modal = "edit" => currentUser.role # "VIEWER"]_vars

\* C4: no two projects of the store have the same id.
C4_UniqueIds ==
    \A i, j \in 1..Len(projects) : i # j => projects[i].id # projects[j].id

\* C5: a successful edit submission makes the changeHistory of the edited entity
\* exactly one longer, and the reason of the last entry is the submitted changeReason.
C5_HistoryGrowsByOne ==
    [][(ev'.op = "handleSubmit" /\ ev'.modal = "edit" /\ ev'.ok)
        => /\ Len(projects') = Len(projects)
           /\ \A i \in 1..Len(projects) :
                 projects[i].id = ev'.id =>
                    LET before == projects[i].changeHistory
                        after == projects'[i].changeHistory
                    IN  /\ Len(after) = Len(before) + 1
                        /\ after[Len(after)].reason = forms["edit"].changeReason]_vars

\* an entity edited twice: its second entry carries the reason typed in the form
C5_Witness ==
    /\ ev.op = "handleSubmit" /\ ev.modal = "edit" /\ ev.ok
    /\ \E i \in 1..Len(projects) :
          /\ projects[i].id = ev.id
          /\ Len(projects[i].changeHistory) = 2
          /\ projects[i].changeHistory[2].reason = forms["edit"].changeReason

\* C6: in edit mode a submit with an empty or blank changeReason is rejected: nothing
\* is saved, the form stays open, the store (and every changeHistory) is unchanged.
C6_BlankReasonRejected ==
    [][(ev'.op = "handleSubmit" /\ ev'.modal = "edit"
          /\ Trim(forms["edit"].changeReason) = <<>>)
        => /\ ~ev'.ok
           /\ editingProject' # None
           /\ UNCHANGED <<projects, editingProject, forms>>]_vars

\* a named entity submitted with a blank reason, just rejected
C6_Witness ==
    /\ ev.op = "handleSubmit" /\ ev.modal = "edit" /\ ~ev.ok
    /\ editingProject # None
    /\ Trim(forms["edit"].name) # <<>>
    /\ forms["edit"].changeReason = <<" ">>
    /\ projects = INITIAL_PROJECTS

\* C7: a submit whose name is empty after trimming is rejected: nothing is saved, the
\* form stays open with its values, the store is unchanged.
C7_BlankNameRejected ==
    [][(ev'.op = "handleSubmit" /\ Trim(forms[ev'.modal].name) = <<>>)
        => /\ ~ev'.ok
           /\ IsOpen(ev'.modal, isModalOpen', editingProject')
           /\ UNCHANGED <<projects, isModalOpen, editingProject, forms>>]_vars

\* a create form with a blank name and a typed tech stack, just rejected
C7_Witness ==
    /\ ev.op = "handleSubmit" /\ ev.modal = "create" /\ ~ev.ok
    /\ isModalOpen
    /\ forms["create"].name = <<" ">>
    /\ forms["create"].techStack # <<>>
    /\ projects = INITIAL_PROJECTS

\* C8: every project of the store with itemType 'file' has status COMPLETED.
C8_FileIsCompleted ==
    \A i \in 1..Len(projects) :
        projects[i].itemType = "file" => projects[i].status = "COMPLETED"

\* a file just created from a form whose status was IDEA
C8_Witness ==
    /\ ev.op = "handleSubmit" /\ ev.modal = "create" /\ ev.ok
    /\ forms["create"].itemType = "file"
    /\ forms["create"].status = "IDEA"
    /\ projects[1].itemType = "file"
    /\ projects[1].status = "COMPLETED"

\* a segment without its leading and trailing whitespace
C9_Strip(s) ==
    LET idx == {i \in 1..Len(s) : s[i] # " "}
    IN  IF idx = {} THEN <<>>
        ELSE SubSeq(s, CHOOSE i \in idx : \A j \in idx : i <= j,
                       CHOOSE i \in idx : \A j \in idx : j <= i)

\* the tags of s, read left to right; cur is the segment read since the last comma
RECURSIVE C9_Tags(_, _)
C9_Tags(s, cur) ==
    LET tag == IF C9_Strip(cur) = <<>> THEN <<>> ELSE <<C9_Strip(cur)>>
    IN  IF s = <<>> THEN tag
        ELSE IF Head(s) = "," THEN tag \o C9_Tags(Tail(s), <<>>)
        ELSE C9_Tags(Tail(s), Append(cur, Head(s)))

\* C9: after a save the stored techStack is the sequence of the comma-separated
\* segments of the submitted string, trimmed, empty ones dropped, in order, duplicates
\* kept ("A, B, B" gives A, B, B); no stored techStack holds an empty string.
C9_TechStackParsed ==
    /\ \A i \in 1..Len(projects) :
          \A k \in 1..Len(projects[i].techStack) : projects[i].techStack[k] # <<>>
    /\ (ev.op = "handleSubmit" /\ ev.ok) =>
          LET typed == forms[ev.modal].techStack
              saved == {i \in 1..Len(projects) :
                           IF ev.modal = "create" THEN i = 1 ELSE projects[i].id = ev.id}
          IN  \A i \in saved :
                 /\ projects[i].techStack = C9_Tags(typed, <<>>)
                 /\ typed = <<"A", ",", " ", "B", ",", " ", "B">>
                       => projects[i].techStack = << <<"A">>, <<"B">>, <<"B">> >>

\* an item just created with the tech stack "A, B, B"
C9_Witness ==
    /\ ev.op = "handleSubmit" /\ ev.modal = "create" /\ ev.ok
    /\ forms["create"].techStack = <<"A", ",", " ", "B", ",", " ", "B">>
    /\ projects[1].techStack = << <<"A">>, <<"B">>, <<"B">> >>

\* C10: after a confirmed handleDeleteProject(id) no project of the store has that id,
\* selectedProject and editingProject are cleared if they had it, and featuredProject
\* does not have it: if it had, it is now null or a project of the store.
C10_DeleteClearsReferences ==
    [][(ev'.op = "handleDeleteProject" /\ ev'.ok)
        => /\ \A i \in 1..Len(projects') : projects'[i].id # ev'.id
           /\ selectedProject' = None \/ selectedProject'[1].id # ev'.id
           /\ editingProject' = None \/ editingProject'[1].id # ev'.id
           /\ featuredProject' = None \/ featuredProject'[1].id # ev'.id
           /\ (selectedProject # None /\ selectedProject[1].id = ev'.id)
                 => selectedProject' = None
           /\ (editingProject # None /\ editingProject[1].id = ev'.id)
                 => editingProject' = None
           /\ (featuredProject # None /\ featuredProject[1].id = ev'.id)
                 => \/ featuredProject' = None
                    \/ \E i \in 1..Len(projects') : projects'[i] = featuredProject'[1]
          ]_vars

\* the first seed app, which was featured, just deleted: the next app is featured
C10_Witness ==
    /\ ev.op = "handleDeleteProject" /\ ev.ok /\ ev.id = "fets-hub"
    /\ selectedProject = None
    /\ editingProject = None
    /\ featuredProject # None
    /\ featuredProject[1].id = "fets-live"
    /\ \A i \in 1..Len(projects) : projects[i].id # "fets-hub"

\* C11: when the user declines the prompt of handleDeleteProject, handleDeleteUser or
\* handleRemoveImage, the step changes neither the project list, nor the selected,
\* editing and featured references, nor the user list, nor the forms (imageUrl included).
C11_DeclineChangesNothing ==
    [][(ev'.op \in {"handleDeleteProject", "handleDeleteUser", "handleRemoveImage"}
            /\ ~ev'.ok)
        => UNCHANGED <<projects, selectedProject, editingProject, featuredProject,
                       users, forms>>]_vars

\* the removal of the cover image of an open edit form just declined, after a project
\* deletion and a user removal were confirmed
C11_Witness ==
    /\ ev.op = "handleRemoveImage" /\ ~ev.ok
    /\ editingProject # None
    /\ forms["edit"].imageUrl = <<"https://images.unsplash.com">>
    /\ Len(users) = 2
    /\ Len(projects) = 11

\* the lists "My List" is compared over: the user's and the whole store
C12_Lists == {myList, [i \in 1..Len(projects) |-> projects[i].id]}

\* the search over the whole store
C12_Found == SelectSeq(projects, LAMBDA p : Matches(p, ToLowerCase(searchQuery)))

C13_BucketOf(p) == IF p.status \in Statuses THEN p.status ELSE "Other"

\* fs with the status of the entries at the positions in S replaced: by a status
\* outside the enumeration, the literal Other at the even positions
C13_Foreign(fs, S) ==
    [j \in 1..Len(fs) |->
        IF j \in S
        THEN [fs[j] EXCEPT !.status = IF j % 2 = 0 THEN "Other" ELSE "ON_HOLD"]
        ELSE fs[j]]

\* the sequences grouped: the filtered one, and it with foreign statuses at its
\* first position, at its last, at the first two, at all
C13_Inputs(fs) ==
    {fs, C13_Foreign(fs, {1}), C13_Foreign(fs, {Len(fs)}), C13_Foreign(fs, 1..2),
     C13_Foreign(fs, 1..Len(fs))}

C13_IsPartition(fs, grouped) ==
    /\ Statuses \subseteq DOMAIN grouped
    /\ DOMAIN grouped \subseteq Statuses \cup {"Other"}
    /\ \A b \in Statuses \cup {"Other"} :
          (IF b \in DOMAIN grouped THEN grouped[b] ELSE <<>>)
              = SelectSeq(fs, LAMBDA p : C13_BucketOf(p) = b)

C19_Shown(c, p) ==
    CASE c = "Home" -> p.itemType = "app"
      [] c = "Resources" -> p.itemType = "file"
      [] c = "My List" -> \E i \in 1..Len(myList) : myList[i] = p.id
      [] OTHER -> TRUE

\* C19: with an empty query the filtered sequence holds, in the order of the store,
\* the apps for Home, the files for Resources, the projects of myList for My List,
\* and the whole store for a category the filter does not name (SOP).
C19_CategoryFilter ==
    searchQuery = <<>> =>
        \A c \in Categories \ {"FETS Apps"} :
            filteredProjects(projects, searchQuery, c, myList)
                = SelectSeq(projects, LAMBDA p : C19_Shown(c, p))

\* SOP with no query, the first file on "My List", after a save: all rows are shown,
\* and My List would show the one file
C19_Witness ==
    /\ searchQuery = <<>>
    /\ activeCategory = "SOP"
    /\ myList = <<"cert-cma">>
    /\ projects # INITIAL_PROJECTS
    /\ filteredProjects(projects, searchQuery, activeCategory, myList) = projects
    /\ Len(filteredProjects(projects, searchQuery, "My List", myList)) = 1

\* some tag of p holds some keyword, letter case ignored
C20_HasKeywordAnyCase(p) ==
    \E i \in 1..Len(p.techStack) : \E k \in Keywords :
        Includes(ToLowerCase(p.techStack[i]), ToLowerCase(k))

\* C20: with an empty query and FETS Apps active, a project is shown iff it is an app
\* and one of its tags holds one of the keywords, compared case-insensitively.
C20_TagFilterIgnoresCase ==
    searchQuery = <<>> =>
        filteredProjects(projects, searchQuery, "FETS Apps", myList)
            = SelectSeq(projects, LAMBDA p : p.itemType = "app" /\ C20_HasKeywordAnyCase(p))

\* C14: a response that arrives after the form it was asked from was closed, or
\* closed and opened again for another entity or as a new create form, changes
\* neither the description nor the files of a form that is open, nor the store.
C14_StaleResponseDiscarded ==
    [][(/\ ev'.op = "generateResponse"
        /\ requests[ev'.modal] # <<>>
        /\ requests[ev'.modal][1].stale
        /\ \/ ~IsOpen(ev'.modal, isModalOpen, editingProject)
           \/ ev'.modal = "create"
           \/ editingProject[1].id # requests[ev'.modal][1].target)
        => /\ projects' = projects
           /\ \A m \in Modals :
                 IsOpen(m, isModalOpen, editingProject)
                    => /\ forms'[m].description = forms[m].description
                       /\ forms'[m].files = forms[m].files]_vars

\* C15: isGenerating of a form is set exactly while a call of that form is in
\* flight, at most one call per form is in flight, and a set flag is eventually
\* cleared, whatever the call resolves to.
C15_BusyFlag ==
    /\ [](\A m \in Modals :
            /\ Len(requests[m]) <= 1
            /\ isGenerating[m] <=> requests[m] # <<>>)
    /\ \A m \in Modals : isGenerating[m] ~> ~isGenerating[m]

\* the call of the edit form just resolved and its flag is cleared, while the call
\* of the create form is still in flight
C15_Witness ==
    /\ ev.op = "generateResponse" /\ ev.modal = "edit"
    /\ ~isGenerating["edit"] /\ requests["edit"] = <<>>
    /\ isGenerating["create"] /\ Len(requests["create"]) = 1

\* C16: when the call resolves to null, the step leaves the forms (description and
\* files included) and the store as they are, and handleGenerate runs to its end:
\* the busy flag is cleared.
C16_NullLeavesForm ==
    [][(ev'.op = "generateResponse" /\ ~ev'.ok)
        => /\ forms' = forms
           /\ projects' = projects
           /\ ~isGenerating'[ev'.modal]]_vars

\* a null result arrived at the open edit form, whose description the user had typed
C16_Witness ==
    /\ ev.op = "generateResponse" /\ ~ev.ok /\ ev.modal = "edit"
    /\ editingProject # None
    /\ forms["edit"].description = <<"new", " ", "description">>
    /\ forms["edit"].files = <<"files">>
    /\ ~isGenerating["edit"]

\* C17: in every reachable state, a store without a project of itemType app has no
\* featured project.
C17_NoAppsNoFeatured == Apps(projects) = <<>> => featuredProject = None

\* C18: a submission is never rejected because of the date, and the saved entity's
\* createdAt is the timestamp of the date-picker value when that value parses, 0
\* (1970-01-01) included, and the current time when it does not.
C18_CreatedAtFromPicker ==
    [][ev'.op = "handleSubmit"
        => LET fd == forms[ev'.modal]
               saved == IF ev'.modal = "create" THEN {1}
                        ELSE {i \in 1..Len(projects') : projects'[i].id = ev'.id}
           IN  /\ ev'.ok <=> ~Rejected(fd, InitialData(ev'.modal, editingProject))
               /\ ev'.ok =>
                     \A i \in saved :
                        projects'[i].createdAt =
                            IF fd.dateInput = <<>> THEN now ELSE fd.dateInput[1] * DayLen
       ]_vars

\* the state of the form workflow
C21_State(open, ep) ==
    CASE open /\ ep # None -> "both"
      [] open -> "create"
      [] ep # None -> "edit"
      [] OTHER -> "closed"

\* the store after exactly one call of the onSave of form m
C21_SavedOnce(m, before, after, id) ==
    IF m = "create"
    THEN Len(after) = Len(before) + 1 /\ Tail(after) = before
    ELSE /\ Len(after) = Len(before)
         /\ \A i \in 1..Len(before) :
               Len(after[i].changeHistory) =
                   Len(before[i].changeHistory) + (IF before[i].id = id THEN 1 ELSE 0)

C22_Prefix(h, h2) == Len(h) <= Len(h2) /\ SubSeq(h2, 1, Len(h)) = h

\* C22: changeHistory is append-only.  In every step, every entity that stays in the
\* store (a create shifts it by one position, a deletion moves it up) keeps its id
\* and the entries it had, unchanged and at their positions; a successful edit
\* submission adds exactly one entry to the edited entity, and nothing else adds or
\* removes an entry (a step that leaves the store as it is, and is no edit, does not).
C22_HistoryAppendOnly ==
    [][LET created == ev'.op = "handleSubmit" /\ ev'.ok /\ ev'.modal = "create"
           edited == ev'.op = "handleSubmit" /\ ev'.ok /\ ev'.modal = "edit"
           deleted == ev'.op = "handleDeleteProject" /\ ev'.ok
           kept == {i \in 1..Len(projects) : ~(deleted /\ projects[i].id = ev'.id)}
           offset == IF created THEN 1 ELSE 0
       IN  \/ projects' = projects /\ ~edited
           \/ /\ Len(projects') = Cardinality(kept) + offset
              /\ \A i \in kept :
                    LET j == Cardinality({k \in kept : k <= i}) + offset
                        h == projects[i].changeHistory
                        h2 == projects'[j].changeHistory
                    IN  /\ projects'[j].id = projects[i].id
                        /\ C22_Prefix(h, h2)
                        /\ Len(h2) =
                              Len(h) + (IF edited /\ projects[i].id = ev'.id THEN 1 ELSE 0)
      ]_vars

\* an entity just edited for the second time, after another entity was deleted: its
\* first entry is still there, before the new one
C22_Witness ==
    /\ ev.op = "handleSubmit" /\ ev.ok /\ ev.modal = "edit"
    /\ Len(projects) = Len(INITIAL_PROJECTS) - 1
    /\ \E i \in 1..Len(projects) :
          /\ projects[i].id = ev.id
          /\ Len(projects[i].changeHistory) = 2
          /\ projects[i].changeHistory[1].reason = <<"fix">>

\* C23: in every reachable state, every entry of every project's changeHistory has
\* a non-empty reason.
C23_ReasonNonEmpty ==
    \A i \in 1..Len(projects) :
        \A k \in 1..Len(projects[i].changeHistory) :
            projects[i].changeHistory[k].reason # <<>>

\* two entities of the store were edited: each history holds an entry with the
\* reason typed in the form
C23_Witness ==
    \E i, j \in 1..Len(projects) :
        /\ i # j
        /\ Len(projects[i].changeHistory) = 1
        /\ Len(projects[j].changeHistory) = 1
        /\ projects[i].changeHistory[1].reason = <<"fix">>
        /\ projects[j].changeHistory[1].reason = <<"fix">>

\* C24: a successful create puts the new project at the front of the store and leaves
\* the existing projects as they were, in their order; a successful edit replaces
\* the project whose id is the id of the edited entity, at its position and with its
\* id, and leaves every other project, the length and the order of the store as
\* they were.
C24_CreateFrontEditInPlace ==
    [][(ev'.op = "handleSubmit" /\ ev'.ok)
        => IF ev'.modal = "create"
           THEN /\ Len(projects') = Len(projects) + 1
                /\ Tail(projects') = projects
                /\ projects'[1].name = forms["create"].name
           ELSE /\ ev'.id = editingProject[1].id
                /\ Len(projects') = Len(projects)
                /\ \A i \in 1..Len(projects) :
                      /\ projects'[i].id = projects[i].id
                      /\ projects[i].id # ev'.id => projects'[i] = projects[i]
                /\ \E i \in 1..Len(projects) :
                      projects[i].id = ev'.id /\ projects'[i] # projects[i]
      ]_vars

\* the first file edited after an item was created in front of the store: it is
\* still the tenth project, the new item the first
C24_Witness ==
    /\ ev.op = "handleSubmit" /\ ev.ok /\ ev.modal = "edit" /\ ev.id = "cert-cma"
    /\ Len(projects) = Len(INITIAL_PROJECTS) + 1
    /\ projects[1].id = ToString(StartTime)
    /\ projects[10].id = "cert-cma"
    /\ Len(projects[10].changeHistory) = 1
    /\ \A i \in 2..Len(projects) \ {10} : projects[i] = INITIAL_PROJECTS[i - 1]

\* C25: when the call resolves to a result and the form is still the one the call
\* was started from, the description of that form becomes the returned description,
\* its files become the returned suggestedFiles if they are empty at that moment
\* and are kept otherwise, and no other field of the form, and nothing of the other
\* form, changes.
C25_ResultApplied ==
    [][(/\ ev'.op = "generateResponse" /\ ev'.ok
        /\ requests[ev'.modal] # <<>>
        /\ ~requests[ev'.modal][1].stale)
        => \E r \in AiOutcomes :
              /\ r # None
              /\ forms' =
                    [forms EXCEPT
                        ![ev'.modal].description = r[1].description,
                        ![ev'.modal].files =
                            IF forms[ev'.modal].files = <<>> THEN r[1].suggestedFiles
                            ELSE forms[ev'.modal].files]
      ]_vars

\* the result arrived at the create form the call was started from, whose files
\* were empty: they hold the suggestion, name and tech stack are as typed
C25_Witness ==
    /\ ev.op = "generateResponse" /\ ev.ok /\ ev.modal = "create"
    /\ isModalOpen
    /\ forms["create"].name = <<"X">>
    /\ forms["create"].techStack # <<>>
    /\ forms["create"].description = <<"generated", " ", "description">>
    /\ forms["create"].files = <<"generated", " ", "files">>

\* C26: the selection of the featured project changes featuredProject only.  After
\* the initial pick the store, the user list, myList and the selected and editing
\* references are as constructed, and a rotation of the timer leaves all of them
\* as they are.
C26_SelectionReadOnly ==
    /\ (/\ projects = INITIAL_PROJECTS /\ users = MOCK_USERS /\ myList = <<>>
        /\ selectedProject = None /\ editingProject = None
        /\ featuredProject # None)
    /\ [][(ev'.op = "idle" /\ featuredProject' # featuredProject)
            => UNCHANGED <<projects, users, myList, selectedProject, editingProject,
                           isModalOpen, forms>>]_vars

\* the timer picked the first app after it was edited (the featured object carries
\* the entry of the edit) while the detail view shows a project
C26_Witness ==
    /\ featuredProject # None
    /\ featuredProject[1].id = "fets-hub"
    /\ Len(featuredProject[1].changeHistory) = 1
    /\ selectedProject # None
    /\ projects[1] = featuredProject[1]

\* the projects of itemType app a collection holds
C27_AppsOf(ps) == {ps[i] : i \in {j \in 1..Len(ps) : ps[j].itemType = "app"}}

\* C27: at any time exactly one rotation interval runs, and the collection its
\* callback reads is the current store: every create, edit and delete clears the
\* running interval and starts a new one.  So a rotation picks one of the apps of
\* the current store, never of a collection captured before a change.
C27_OneCurrentTimer ==
    /\ [](Len(timers) = 1 /\ timers[1] = projects)
    /\ [][(ev'.op = "idle" /\ featuredProject' # featuredProject)
            => /\ featuredProject' # None
               /\ featuredProject'[1] \in C27_AppsOf(projects)
               /\ timers' = timers]_vars

\* after a deletion and an edit of the first app the timer fired: the one interval
\* holds the store of eleven, and the featured project is the edited app as stored
C27_Witness ==
    /\ Len(timers) = 1
    /\ Len(timers[1]) = Len(INITIAL_PROJECTS) - 1
    /\ ev.op = "idle"
    /\ featuredProject # None
    /\ Len(featuredProject[1].changeHistory) = 1
    /\ featuredProject[1] = timers[1][1]

\* C28: in every reachable state a featured project is a project of the store, with
\* the same id and the same values in every field, and its itemType is app.
C28_FeaturedInStore ==
    featuredProject # None =>
        /\ featuredProject[1].itemType = "app"
        /\ \E i \in 1..Len(projects) : projects[i] = featuredProject[1]

\* the fields of a stored entity other than changeHistory; an URL that is left out
\* counts as the empty one
C29_Fields(p) ==
    [id |-> p.id, name |-> p.name, description |-> p.description, status |-> p.status,
     websiteUrl |-> OrEmpty(p.websiteUrl), repoUrl |-> OrEmpty(p.repoUrl),
     imageUrl |-> OrEmpty(p.imageUrl), itemType |-> p.itemType, files |-> p.files,
     techStack |-> p.techStack, createdAt |-> p.createdAt]

\* C29: an entity opened in the edit form and saved with nothing but a change reason
\* typed keeps every field other than changeHistory: name, description, status, the
\* URLs, itemType, files, techStack (through join and split) and createdAt (through
\* the day of the date picker).
C29_ReasonOnlyEditKeepsFields ==
    [][(/\ ev'.op = "handleSubmit" /\ ev'.ok /\ ev'.modal = "edit"
        /\ forms["edit"] = [FormOf(editingProject[1])
                               EXCEPT !.changeReason = forms["edit"].changeReason])
        => \A i \in 1..Len(projects) :
              (projects[i].id = ev'.id /\ projects[i] = editingProject[1])
                 => C29_Fields(projects'[i]) = C29_Fields(projects[i])]_vars

=============================================================================
